---------------------------- MODULE Spec2Model ----------------------------
(***************************************************************************)
(* Distance variation function (DVF) filter of the Spatial Audio           *)
(* Framework: framework/modules/saf_utilities/saf_utility_dvf.c            *)
(*                                                                         *)
(* Numbers.  A C float is modelled as a fixed-point number: the integer n  *)
(* stands for the value n / Q (Q = 1000), and every arithmetic operation   *)
(* rounds its exact result to the nearest such value, as a float operation *)
(* rounds to the nearest float.  The one extra value NonFinite stands for  *)
(* NaN and the infinities; it is absorbing under + - * and /.  All the     *)
(* inputs the specifications draw (angles on a half-degree grid, distances *)
(* on a half-radius grid, samples 0 and 1) are exactly representable both  *)
(* as floats and on the grid.  powf and tanf are approximated to the grid. *)
(***************************************************************************)
EXTENDS Integers, Naturals, Sequences, FiniteSets, TLC

\* ------------------------------------------------------------------------
\* Bounds of the model
\* ------------------------------------------------------------------------
MaxThetaDeg == 190      \* interpHighShelfParams is called with theta in [0, MaxThetaDeg]
MaxRhoSteps == 2        \* rho in {1, 1.5, ..., 1 + MaxRhoSteps/2}
SigLen      == 3        \* samples per channel fed through applyDVF

\* ------------------------------------------------------------------------
\* float arithmetic
\* ------------------------------------------------------------------------
Q == 10^3                       \* grid: n stands for n / Q
NonFinite == 0 - 2 * 10^9        \* NaN, +inf, -inf

IsFinite(x) == x # NonFinite

Abs(x) == IF x < 0 THEN -x ELSE x
Sgn(x) == IF x < 0 THEN -1 ELSE 1

\* n / d rounded to the nearest integer, n >= 0, d > 0
RoundDiv(n, d) == (n \div d) + (IF 2 * (n % d) >= d THEN 1 ELSE 0)

\* long division: acc is the quotient so far, r the remainder, k the number
\* of decimal digits still to produce; the last digit is rounded
RECURSIVE LongDiv(_, _, _, _)
LongDiv(acc, r, d, k) ==
    IF k = 0 THEN acc + (IF 2 * r >= d THEN 1 ELSE 0)
    ELSE LongDiv(acc * 10 + ((r * 10) \div d), (r * 10) % d, d, k - 1)

\* x * 10^k / y rounded, y # 0
ScaledDiv(x, y, k) ==
    Sgn(x) * Sgn(y) * LongDiv(Abs(x) \div Abs(y), Abs(x) % Abs(y), Abs(y), k)

AddF(x, y) == IF IsFinite(x) /\ IsFinite(y) THEN x + y ELSE NonFinite
SubF(x, y) == IF IsFinite(x) /\ IsFinite(y) THEN x - y ELSE NonFinite

\* x * y: the exact product of the two grid values, rounded to the grid
MulF(x, y) ==
    IF IsFinite(x) /\ IsFinite(y)
    THEN LET a  == Abs(x)
             b  == Abs(y)
             ah == a \div Q
             al == a % Q
             bh == b \div Q
             bl == b % Q
         IN  Sgn(x) * Sgn(y) * (ah * bh * Q + ah * bl + al * bh + RoundDiv(al * bl, Q))
    ELSE NonFinite

\* x / y: division by zero gives a non-finite float
DivF(x, y) ==
    IF IsFinite(x) /\ IsFinite(y) /\ y # 0 THEN ScaledDiv(x, y, 3) ELSE NonFinite

\* (int) x: conversion of a float to int truncates toward zero
IntOf(x) == Sgn(x) * (Abs(x) \div Q)

\* (float) i
FloatOf(i) == i * Q

\* powf(10.f, y): the mantissa 10^(j/20), j = 0..20, is tabulated and
\* interpolated linearly in between; the decade is exact
Pow10Tab ==
    << 1000, 1122, 1259, 1413, 1585, 1778, 1995, 2239, 2512, 2818, 3162,
       3548, 3981, 4467, 5012, 5623, 6310, 7079, 7943, 8913, 10000 >>

powf10(y) ==
    IF ~IsFinite(y) THEN NonFinite
    ELSE LET e    == y \div Q                   \* floor(y)
             f    == y % Q                      \* fractional part, 0 .. Q-1
             j    == f \div 50
             lo   == Pow10Tab[j + 1]
             hi   == Pow10Tab[j + 2]
             mant == lo + RoundDiv((hi - lo) * (f % 50), 50)
         IN  IF e >= 0 THEN mant * 10^e ELSE RoundDiv(mant, 10^(0 - e))

\* tanf(x): the Pade approximant x (15 - x^2) / (15 - 6 x^2) of the tangent
tanf(x) ==
    LET x2 == MulF(x, x)
    IN  DivF(MulF(x, SubF(15 * Q, x2)), SubF(15 * Q, MulF(6 * Q, x2)))

\* fabsf(x)
fabsf(x) == IF IsFinite(x) THEN Abs(x) ELSE NonFinite

\* ------------------------------------------------------------------------
\* Table 1: coefficients for Eqs. (8), (13) and (14), in units of 1 / Q
\* ------------------------------------------------------------------------
p11 == << 12970, 13190, 12130, 11190, 9910, 8328, 6493, 4455, 2274, 18, -2240, -4430, -6490, -8340, -9930, -11300, -12200, -12800, -13000 >>
p21 == << -9690, 234200, -11200, -9030, -7870, -7420, -7310, -7280, -7290, -7480, -8040, -9230, -11600, -17400, -48400, 9149, 1905, -750, -1320 >>
q11 == << -1140, 18480, -1250, -1020, -830, -670, -500, -320, -110, -130, 395, 699, 1084, 1757, 4764, -640, 109, 386, 450 >>
q21 == << 219, -8500, 346, 336, 379, 421, 423, 382, 314, 240, 177, 132, 113, 142, 462, -140, -80, -60, -50 >>
p12 == << -4390, -4310, -4180, -4010, -3870, -4100, -3870, -5020, -6720, -8690, -11200, -12100, -11100, -11100, -9720, -8420, -7440, -6780, -6580 >>
p22 == << 2123, -2780, 4224, 3039, -570, -34700, 3271, 23, -8960, -58400, 11470, 8716, 21800, 1910, -40, -660, 395, 2662, 3387 >>
q12 == << -550, 590, -1010, -560, 665, 11390, -1570, -870, 370, 5446, -1130, -630, -2010, 150, 243, 147, -180, -670, -840 >>
q22 == << -60, -170, -20, -320, -1130, -8300, 637, 325, -80, -1190, 103, -120, 98, -400, -410, -340, -180, 50, 131 >>
p13 == << 457, 455, -870, 465, 494, 549, 663, 691, 3507, -27400, 6371, 7032, 7092, 7463, 7453, 8101, 8702, 8925, 9317 >>
p23 == << -670, 142, 3404000, -910, -670, -1210, -1760, 4655, 55090, 10336000, 1735, 40880, 23860, 102800, -6140, -18100, -9050, -9030, -6890 >>
p33 == << 174, -110, -1699000, 437, 658, 2020, 6815, 614, 589300, 16818000, -9390, -44100, -23600, -92300, -1810, 10540, 532, 285, -2080 >>
q13 == << -1750, -10, 7354000, -2180, -1200, -1590, -1230, -890, 29230, 1945000, -60, 5635, 3308, 13880, -880, -2230, -960, -900, -570 >>
q23 == << 699, -350, -5350000, 1188, 256, 816, 1166, 760, 59510, 1707000, -1120, -6180, -3390, -12700, -190, 1295, -20, -80, -400 >>

\* the static const arrays as they lie in memory
CoeffTable ==
    [ p11 |-> p11, p21 |-> p21, q11 |-> q11, q21 |-> q21,
      p12 |-> p12, p22 |-> p22, q12 |-> q12, q22 |-> q22,
      p13 |-> p13, p23 |-> p23, p33 |-> p33, q13 |-> q13, q23 |-> q23 ]

TableNames == DOMAIN CoeffTable

TableLen    == Len(q23)             \* float q23[19]
SizeofFloat == 4
\* static const int numAz_table = sizeof(q23);  -- the size in bytes
numAz_table == TableLen * SizeofFloat

headDim    == 3022      \* SAF_PI * (a_0 / a_head) = pi * 0.0875 / 0.09096
sosDiv2PiA == 600156    \* 343 / (2 * SAF_PI * a_head)

\* ------------------------------------------------------------------------
\* State
\* ------------------------------------------------------------------------
VARIABLES
    mem,        \* memory: buffer name -> contents (the tables, in, wz, out)
    garbage,    \* what a read past the end of a table array yields
    az,         \* the last interpHighShelfParams call and what it returned
    doa,        \* the last convertFrontalDoAToIpsilateral call
    iir,        \* the last calcIIRCoeffs call
    chan        \* per channel: its azimuth, the samples done, the block sizes

vars == << mem, garbage, az, doa, iir, chan >>

\* ------------------------------------------------------------------------
\* The functions of saf_utility_dvf.c
\* ------------------------------------------------------------------------

\* a + (b - a) * ifac, with b + a in place of b - a
interpolate_lin_sign(a, b, ifac) == AddF(a, MulF(AddF(b, a), ifac))

interpolate_lin(a, b, ifac) == AddF(a, MulF(SubF(b, a), ifac))

db2mag(dB) == powf10(DivF(dB, 20 * Q))

\* name[i] for one of the static arrays: an index outside 0 .. 18 reads
\* whatever lies beside the array
TableAt(m, name, i) ==
    IF i \in 0 .. (TableLen - 1) THEN m[name][i + 1] ELSE garbage

calcHighShelfParams(m, i, rhoIn) ==
    LET rho    == rhoIn
        rhoSq  == MulF(rho, rho)
        T(n)   == TableAt(m, n, i)
        fc_tmp == DivF(AddF(AddF(MulF(T("p13"), rhoSq), MulF(T("p23"), rho)), T("p33")),
                       AddF(AddF(rhoSq, MulF(T("q13"), rho)), T("q23")))
    IN  [ g0   |-> DivF(AddF(MulF(T("p11"), rho), T("p21")),
                        AddF(AddF(rhoSq, MulF(T("q11"), rho)), T("q21"))),
          gInf |-> DivF(AddF(MulF(T("p12"), rho), T("p22")),
                        AddF(AddF(rhoSq, MulF(T("q12"), rho)), T("q22"))),
          fc   |-> MulF(fc_tmp, sosDiv2PiA) ]

\* The record returned also holds the locals of the call: the two indices
\* passed to calcHighShelfParams, whether the boundary branch was taken,
\* the interpolation factor and the two triples interpolated.
interpHighShelfParams(m, theta, rho) ==
    LET thetaDiv10 == DivF(theta, 10 * Q)
        lower0     == IntOf(thetaDiv10)
        upper0     == lower0 + 1
        collapse   == upper0 = numAz_table
        theta_idx_upper == IF collapse THEN lower0 ELSE upper0
        theta_idx_lower == IF collapse THEN lower0 - 1 ELSE lower0
        s1   == calcHighShelfParams(m, theta_idx_lower, rho)
        s2   == calcHighShelfParams(m, theta_idx_upper, rho)
        ifac == SubF(thetaDiv10, FloatOf(theta_idx_lower))
    IN  [ theta_idx_lower |-> theta_idx_lower,
          theta_idx_upper |-> theta_idx_upper,
          collapse |-> collapse,
          ifac  |-> ifac,
          s1    |-> s1,
          s2    |-> s2,
          iG0   |-> interpolate_lin(s1.g0,   s2.g0,   ifac),
          iGInf |-> interpolate_lin(s1.gInf, s2.gInf, ifac),
          iFc   |-> interpolate_lin(s1.fc,   s2.fc,   ifac) ]

\* (headDim / fs) * fc.  The quotient headDim / fs lies far below the grid,
\* so the product is formed from fc / fs carried to six decimals.
ShelfAngle(fc, fs) ==
    IF IsFinite(fc) /\ IsFinite(fs) /\ fs # 0
    THEN LET r6 == ScaledDiv(fc, fs, 6)
         IN  Sgn(r6) * RoundDiv(headDim * Abs(r6), 10^6)
    ELSE NonFinite

\* calcIIRCoeffs with the two gains exchanged
calcIIRCoeffs_swapped(g0, gInf, fc, fs) ==
    LET v0     == db2mag(g0)
        g0_mag == db2mag(gInf)
        tanF   == tanf(ShelfAngle(fc, fs))
        v0tanF == MulF(v0, tanF)
        a_c    == DivF(SubF(v0tanF, Q), AddF(v0tanF, Q))
        v      == MulF(SubF(v0, Q), Q \div 2)
        va_c   == MulF(v, a_c)
    IN  [ b0 |-> MulF(g0_mag, AddF(SubF(v, va_c), Q)),
          b1 |-> MulF(g0_mag, AddF(SubF(va_c, v), a_c)),
          a1 |-> a_c ]

calcIIRCoeffs(g0, gInf, fc, fs) ==
    LET v0     == db2mag(gInf)
        g0_mag == db2mag(g0)
        tanF   == tanf(ShelfAngle(fc, fs))
        v0tanF == MulF(v0, tanF)
        a_c    == DivF(SubF(v0tanF, Q), AddF(v0tanF, Q))
        v      == MulF(SubF(v0, Q), Q \div 2)
        va_c   == MulF(v, a_c)
    IN  [ b0 |-> MulF(g0_mag, AddF(SubF(v, va_c), Q)),
          b1 |-> MulF(g0_mag, AddF(SubF(va_c, v), a_c)),
          a1 |-> a_c ]

\* convertFrontalDoAToIpsilateral without the fold at 180 degrees
convertFrontalDoAToIpsilateral_nofold(thetaFront) ==
    LET thetaL == fabsf(SubF(90 * Q, thetaFront))
    IN  << thetaL, SubF(180 * Q, thetaL) >>

\* convertFrontalDoAToIpsilateral with thetaR measured from 90 degrees
convertFrontalDoAToIpsilateral_r90(thetaFront) ==
    LET t      == fabsf(SubF(90 * Q, thetaFront))
        thetaL == IF t > 180 * Q THEN SubF(360 * Q, t) ELSE t
    IN  << thetaL, SubF(90 * Q, thetaL) >>

\* ipsiDoaLR[0], ipsiDoaLR[1] as the pair << left, right >>
convertFrontalDoAToIpsilateral(thetaFront) ==
    LET t      == fabsf(SubF(90 * Q, thetaFront))
        thetaL == IF t > 180 * Q THEN SubF(360 * Q, t) ELSE t
    IN  << thetaL, SubF(180 * Q, thetaL) >>


\* ------------------------------------------------------------------------
\* Memory of the two filter channels (left and right ear)
\* ------------------------------------------------------------------------
Chans == {1, 2}

InBuf     == "in"
WzBuf(c)  == IF c = 1 THEN "wz1" ELSE "wz2"
OutBuf(c) == IF c = 1 THEN "out1" ELSE "out2"

Zeros(n) == [k \in 1 .. n |-> 0]

\* in_signal[n], out_signal[n]: a pointer is a buffer and an offset into it
Ptr(buf, off) == [buf |-> buf, off |-> off]

\* applyIIR (saf_utility_filters), first order: direct form II,
\*     wn = in[n] - a[1] * wz[0];  out[n] = b[0] * wn + b[1] * wz[0];  wz[0] = wn
RECURSIVE IIRLoop(_, _, _, _, _, _, _, _)
IIRLoop(m, n, in_signal, nSamples, b, a, wz, out_signal) ==
    IF n >= nSamples THEN m
    ELSE LET x  == m[in_signal.buf][in_signal.off + n + 1]
             wn == SubF(x, MulF(a[2], m[wz][1]))
             y  == AddF(MulF(b[1], wn), MulF(b[2], m[wz][1]))
             m1 == [m  EXCEPT ![out_signal.buf][out_signal.off + n + 1] = y]
             m2 == [m1 EXCEPT ![wz][1] = wn]
         IN  IIRLoop(m2, n + 1, in_signal, nSamples, b, a, wz, out_signal)

applyIIR(m, in_signal, nSamples, nCoeffs, b, a, wz, out_signal) ==
    IIRLoop(m, 0, in_signal, nSamples, b, a, wz, out_signal)

\* applyDVF that clears the delay line at the start of every block
applyDVF_resetWz(m, theta, rho, in_signal, nSamples, fs, wz, out_signal) ==
    LET s == interpHighShelfParams(m, theta, rho)
        c == calcIIRCoeffs(s.iG0, s.iGInf, s.iFc, fs)
    IN  applyIIR([m EXCEPT ![wz] = Zeros(2)], in_signal, nSamples, 2,
                 << c.b0, c.b1 >>, << Q, c.a1 >>, wz, out_signal)

\* applyDVF that keeps the delay line in one place for every caller
applyDVF_staticWz(m, theta, rho, in_signal, nSamples, fs, wz, out_signal) ==
    LET s == interpHighShelfParams(m, theta, rho)
        c == calcIIRCoeffs(s.iG0, s.iGInf, s.iFc, fs)
    IN  applyIIR(m, in_signal, nSamples, 2,
                 << c.b0, c.b1 >>, << Q, c.a1 >>, WzBuf(1), out_signal)

\* applyDVF that primes the delay line with a[] = {1, a1}
applyDVF_wzFromA(m, theta, rho, in_signal, nSamples, fs, wz, out_signal) ==
    LET s == interpHighShelfParams(m, theta, rho)
        c == calcIIRCoeffs(s.iG0, s.iGInf, s.iFc, fs)
    IN  applyIIR([m EXCEPT ![wz] = << Q, c.a1 >>], in_signal, nSamples, 2,
                 << c.b0, c.b1 >>, << Q, c.a1 >>, wz, out_signal)

\* the memory after the call
applyDVF(m, theta, rho, in_signal, nSamples, fs, wz, out_signal) ==
    LET s == interpHighShelfParams(m, theta, rho)
        c == calcIIRCoeffs(s.iG0, s.iGInf, s.iFc, fs)
    IN  applyIIR(m, in_signal, nSamples, 2,
                 << c.b0, c.b1 >>, << Q, c.a1 >>, wz, out_signal)

\* ------------------------------------------------------------------------
\* Inputs
\* ------------------------------------------------------------------------
HalfStep == Q \div 2

\* what may lie beside a table array: zero bits, the first entry of the
\* next array, or a bit pattern that is no finite float
Garbage == {0, p21[1], NonFinite}

Thetas    == {k * HalfStep : k \in 0 .. 2 * MaxThetaDeg}
\* the two ends of the interval in which the boundary branch is taken
FarThetas == {FloatOf(10 * (numAz_table - 1)), FloatOf(10 * (numAz_table - 1) + 5)}
Rhos      == {Q + k * HalfStep : k \in 0 .. MaxRhoSteps}

MaxFrontDeg == 200
Fronts      == {k * HalfStep : k \in (0 - 2 * MaxFrontDeg) .. 2 * MaxFrontDeg}
\* (-180, 180], the documented range of thetaFront
NominalFronts == {t \in Fronts : t > FloatOf(0 - 180) /\ t <= FloatOf(180)}

MaxGainSteps == 2
MaxFcSteps   == 3
GainsDb     == {FloatOf(6 * k) : k \in (0 - MaxGainSteps) .. MaxGainSteps}
Cutoffs     == {FloatOf(500 * k * k) : k \in 1 .. MaxFcSteps}
SampleRates == {FloatOf(44100), FloatOf(48000)}

Samples   == {0, Q}
Signals   == [1 .. SigLen -> Samples]
DVFFronts == {FloatOf(90), FloatOf(45), 0}
DVFRho    == FloatOf(2)
DVFFs     == FloatOf(48000)

\* ------------------------------------------------------------------------
\* Initial states
\* ------------------------------------------------------------------------
Buffers(sig) ==
    [ b \in {InBuf, WzBuf(1), WzBuf(2), OutBuf(1), OutBuf(2)} |->
        IF b = InBuf THEN sig
        ELSE IF b \in {WzBuf(1), WzBuf(2)} THEN Zeros(2)
        ELSE Zeros(SigLen) ]

NoAz  == [called |-> FALSE]
NoDoa == [called |-> FALSE]
NoIir == [called |-> FALSE]
NoChan == [c \in Chans |-> [theta |-> 0, pos |-> 0, blocks |-> << >>]]

InitCommon ==
    /\ garbage \in Garbage
    /\ az = NoAz
    /\ iir = NoIir

InitIdle ==
    /\ InitCommon
    /\ mem = CoeffTable @@ Buffers(Zeros(SigLen))
    /\ doa = NoDoa
    /\ chan = NoChan

\* a source at thetaFront, its signal in the input buffer, one channel per
\* ear at the ear's ipsilateral azimuth, both delay lines zero
InitDVF ==
    /\ InitCommon
    /\ \E sig \in Signals : mem = CoeffTable @@ Buffers(sig)
    /\ \E thetaFront \in DVFFronts :
          LET ipsiDoaLR == convertFrontalDoAToIpsilateral(thetaFront)
          IN  /\ doa = [called |-> TRUE, thetaFront |-> thetaFront,
                        ipsiDoaLR |-> ipsiDoaLR]
              /\ chan = [c \in Chans |->
                           [theta |-> ipsiDoaLR[c], pos |-> 0, blocks |-> << >>]]

\* ------------------------------------------------------------------------
\* Actions.  A behaviour of SpecInterp, SpecDoA or SpecIIR is one call of the
\* function from the initial state; a behaviour of SpecDVF is a sequence of
\* applyDVF calls, the two channels interleaved in any order.
\* ------------------------------------------------------------------------
AzCall(theta, rho, thetaFront, ear) ==
    [called |-> TRUE, theta |-> theta, rho |-> rho,
     thetaFront |-> thetaFront, ear |-> ear,
     r |-> interpHighShelfParams(mem, theta, rho)]

\* interpHighShelfParams(theta, rho, ...)
Interpolate(theta, rho) ==
    /\ ~az.called
    /\ az' = AzCall(theta, rho, 0, 0)
    /\ UNCHANGED << mem, garbage, doa, iir, chan >>

\* convertFrontalDoAToIpsilateral(thetaFront, ipsiDoaLR);
\* interpHighShelfParams(ipsiDoaLR[ear], rho, ...)
InterpolateEar(thetaFront, ear, rho) ==
    /\ ~az.called
    /\ az' = AzCall(convertFrontalDoAToIpsilateral(thetaFront)[ear], rho,
                    thetaFront, ear)
    /\ UNCHANGED << mem, garbage, doa, iir, chan >>

\* convertFrontalDoAToIpsilateral(thetaFront, ipsiDoaLR)
ConvertDoA(thetaFront) ==
    /\ ~doa.called
    /\ doa' = [called |-> TRUE, thetaFront |-> thetaFront,
               ipsiDoaLR |-> convertFrontalDoAToIpsilateral(thetaFront)]
    /\ UNCHANGED << mem, garbage, az, iir, chan >>

\* calcIIRCoeffs(g0, gInf, fc, fs, &b0, &b1, &a1)
SynthIIR(g0, gInf, fc, fs) ==
    /\ ~iir.called
    /\ iir' = [called |-> TRUE, g0 |-> g0, gInf |-> gInf, fc |-> fc, fs |-> fs,
               c |-> calcIIRCoeffs(g0, gInf, fc, fs)]
    /\ UNCHANGED << mem, garbage, az, doa, chan >>

\* applyDVF(theta, rho, in + pos, nSamples, fs, wz, out + pos) for the next
\* nSamples samples of channel c
Block(c, nSamples) ==
    /\ chan[c].pos + nSamples <= SigLen
    /\ mem' = applyDVF(mem, chan[c].theta, DVFRho, Ptr(InBuf, chan[c].pos),
                       nSamples, DVFFs, WzBuf(c), Ptr(OutBuf(c), chan[c].pos))
    /\ chan' = [chan EXCEPT ![c].pos = @ + nSamples,
                            ![c].blocks = Append(@, nSamples)]
    /\ UNCHANGED << garbage, az, doa, iir >>

NextInterp ==
    \/ \E theta \in Thetas \cup FarThetas, rho \in Rhos : Interpolate(theta, rho)
    \/ \E thetaFront \in NominalFronts, ear \in {1, 2}, rho \in Rhos :
          InterpolateEar(thetaFront, ear, rho)

NextDoA == \E thetaFront \in Fronts : ConvertDoA(thetaFront)

NextIIR ==
    \E g0 \in GainsDb, gInf \in GainsDb, fc \in Cutoffs, fs \in SampleRates :
        SynthIIR(g0, gInf, fc, fs)

NextDVF == \E c \in Chans, nSamples \in 1 .. SigLen : Block(c, nSamples)

SpecInterp == (InitIdle /\ [][NextInterp]_vars)
SpecDoA    == (InitIdle /\ [][NextDoA]_vars)
SpecIIR    == (InitIdle /\ [][NextIIR]_vars)
SpecDVF    == (InitDVF /\ [][NextDVF]_vars)

\* ------------------------------------------------------------------------
\* Properties
\* ------------------------------------------------------------------------
InRange(x, lo, hi) == IsFinite(x) /\ lo <= x /\ x <= hi
Between(x, a, b) ==
    /\ IsFinite(x) /\ IsFinite(a) /\ IsFinite(b)
    /\ (IF a <= b THEN a ELSE b) <= x
    /\ x <= (IF a <= b THEN b ELSE a)
Triple(s) == << s.g0, s.gInf, s.fc >>
LastIdx == TableLen - 1

\* C1: for every theta in [180, 190) the index pair is collapsed to the last
\* two table entries: calcHighShelfParams is called with 17 and with 18.
C1_CollapseAt180 ==
    (az.called /\ az.theta >= FloatOf(180) /\ az.theta < FloatOf(190))
        => /\ az.r.theta_idx_lower = LastIdx - 1
           /\ az.r.theta_idx_upper = LastIdx

\* C2: for theta = 10 k, k in 0 .. 18, and every rho, interpHighShelfParams
\* returns exactly the triple calcHighShelfParams(k, rho) returns.
C2_OnStepEqualsTable ==
    (az.called /\ az.theta % FloatOf(10) = 0 /\ InRange(az.theta, 0, FloatOf(180)))
        => << az.r.iG0, az.r.iGInf, az.r.iFc >>
              = Triple(calcHighShelfParams(mem, az.theta \div FloatOf(10), az.rho))

\* C8: for every theta in [0, 180], given directly or as an output of
\* convertFrontalDoAToIpsilateral for a thetaFront in (-180, 180], both
\* indices passed to calcHighShelfParams lie in 0 .. 18.
C8_IndicesInBounds ==
    (az.called /\ InRange(az.theta, 0, FloatOf(180)))
        => /\ az.r.theta_idx_lower \in 0 .. LastIdx
           /\ az.r.theta_idx_upper \in 0 .. LastIdx

\* C9: for every theta in [0, 180) the indices are floor(theta / 10) and the
\* next one, the boundary branch is not taken, the interpolation factor lies
\* in [0, 1), and each of the three results lies between the two table-step
\* values it is interpolated from.
C9_InterpolationWithinStep ==
    (az.called /\ az.theta >= 0 /\ az.theta < FloatOf(180))
        => /\ az.r.theta_idx_lower = az.theta \div FloatOf(10)
           /\ az.r.theta_idx_upper = az.r.theta_idx_lower + 1
           /\ ~az.r.collapse
           /\ az.r.ifac >= 0 /\ az.r.ifac < Q
           /\ az.r.s1 = calcHighShelfParams(mem, az.r.theta_idx_lower, az.rho)
           /\ az.r.s2 = calcHighShelfParams(mem, az.r.theta_idx_upper, az.rho)
           /\ Between(az.r.iG0,   az.r.s1.g0,   az.r.s2.g0)
           /\ Between(az.r.iGInf, az.r.s1.gInf, az.r.s2.gInf)
           /\ Between(az.r.iFc,   az.r.s1.fc,   az.r.s2.fc)

\* a call strictly inside the last table step, its result strictly between
\* the two table-step values
C9_Witness ==
    /\ az.called /\ az.theta > FloatOf(170) /\ az.theta < FloatOf(180)
    /\ az.r.ifac > 0
    /\ az.r.iG0 # az.r.s1.g0 /\ az.r.iG0 # az.r.s2.g0

\* C4: for every thetaFront in (-180, 180], thetaLeft + thetaRight = 180 and
\* thetaLeft = |90 - thetaFront|, replaced by 360 - thetaLeft when above 180;
\* 90 maps to (0, 180), 0 to (90, 90) and -90 to (180, 0).
C4_LeftPlusRight ==
    (doa.called /\ doa.thetaFront \in NominalFronts)
        => LET t == Abs(FloatOf(90) - doa.thetaFront)
           IN  /\ doa.ipsiDoaLR[1] + doa.ipsiDoaLR[2] = FloatOf(180)
               /\ doa.ipsiDoaLR[1] = IF t > FloatOf(180) THEN FloatOf(360) - t ELSE t
               /\ doa.thetaFront = FloatOf(90)
                     => doa.ipsiDoaLR = << 0, FloatOf(180) >>
               /\ doa.thetaFront = 0
                     => doa.ipsiDoaLR = << FloatOf(90), FloatOf(90) >>
               /\ doa.thetaFront = FloatOf(0 - 90)
                     => doa.ipsiDoaLR = << FloatOf(180), 0 >>

\* a source behind the listener's right: the fold at 180 degrees is taken
C4_Witness ==
    /\ doa.called /\ doa.thetaFront \in NominalFronts
    /\ Abs(FloatOf(90) - doa.thetaFront) > FloatOf(180)
    /\ doa.ipsiDoaLR[1] < FloatOf(180)

\* C10: for every thetaFront in (-180, 180] both outputs of
\* convertFrontalDoAToIpsilateral lie in [0, 180].
C10_OutputsInRange ==
    (doa.called /\ doa.thetaFront \in NominalFronts)
        => /\ InRange(doa.ipsiDoaLR[1], 0, FloatOf(180))
           /\ InRange(doa.ipsiDoaLR[2], 0, FloatOf(180))

\* the two ends of the range are reached: (180, 0) and a folded left azimuth
C10_Witness ==
    /\ doa.called /\ doa.thetaFront \in NominalFronts
    /\ doa.thetaFront < FloatOf(0 - 90)
    /\ doa.ipsiDoaLR[1] > FloatOf(90) /\ doa.ipsiDoaLR[2] < FloatOf(90)

\* rounding allowance of a "~" comparison: 5 grid steps
Near(x, y) == IsFinite(x) /\ IsFinite(y) /\ Abs(x - y) <= 5

\* C5 as stated: whenever gInfDb = g0Db, for any fc and fs, the filter is a
\* pure gain with b1 ~ 0, a1 ~ 0 and b0 ~ 10^(g0Db / 20).
C5_FlatAtEqualGains ==
    (iir.called /\ iir.gInf = iir.g0)
        => /\ Near(iir.c.b1, 0)
           /\ Near(iir.c.a1, 0)
           /\ Near(iir.c.b0, db2mag(iir.g0))

\* C5 as amended: whenever gInfDb = 0 (the shelf gain is relative to the DC
\* gain), for any g0Db, fc and fs for which the coefficients are finite,
\* b0 = 10^(g0Db / 20) and b1 = b0 * a1: the zero cancels the pole and the
\* filter is the pure gain b0, with a1 and b1 not zero in general.
C5_FlatAtZeroShelfGain ==
    (iir.called /\ iir.gInf = 0 /\ IsFinite(iir.c.a1) /\ IsFinite(iir.c.b0))
        => /\ iir.c.b0 = db2mag(iir.g0)
           /\ iir.c.b1 = MulF(iir.c.b0, iir.c.a1)

C5_Witness ==
    /\ iir.called /\ iir.gInf = 0 /\ iir.g0 # 0
    /\ IsFinite(iir.c.a1) /\ IsFinite(iir.c.b0)
    /\ iir.c.a1 # 0 /\ iir.c.b1 # 0 /\ iir.c.b0 # Q

\* ---- applyDVF ----
\* the memory with channel c's delay line and output buffer cleared
Fresh(m, c) == [m EXCEPT ![WzBuf(c)] = Zeros(2), ![OutBuf(c)] = Zeros(SigLen)]

Call(m, c, pos, nSamples) ==
    applyDVF(m, chan[c].theta, DVFRho, Ptr(InBuf, pos), nSamples, DVFFs,
             WzBuf(c), Ptr(OutBuf(c), pos))

\* channel c's first k blocks done one after the other, nothing in between
RECURSIVE Replay(_, _, _, _, _)
Replay(m, c, blocks, k, pos) ==
    IF k > Len(blocks) THEN m
    ELSE Replay(Call(m, c, pos, blocks[k]), c, blocks, k + 1, pos + blocks[k])

SameChannel(m1, m2, c) ==
    /\ m1[WzBuf(c)] = m2[WzBuf(c)]
    /\ m1[OutBuf(c)] = m2[OutBuf(c)]

\* C3: with wz zero at the start, the blocks of a channel done one after the
\* other leave the same output samples and the same wz as one applyDVF call
\* on the whole of the samples done so far, for every split.
C3_BlockContinuity ==
    \A c \in Chans :
        SameChannel(mem, Call(Fresh(mem, c), c, 0, chan[c].pos), c)

\* a signal done in two blocks, the delay line not zero at the split
C3_Witness ==
    \E c \in Chans :
        /\ Len(chan[c].blocks) = 2 /\ chan[c].pos = SigLen
        /\ mem[InBuf][1] # 0
        /\ IsFinite(mem[WzBuf(c)][1]) /\ mem[WzBuf(c)][1] # 0
        /\ mem[OutBuf(c)][SigLen] # 0

\* C6: under any interleaving of the two channels' calls each channel has
\* the outputs and the wz it has when its calls run alone, and a call
\* changes only its own channel's wz and out: not the tables, not the input
\* block, not the other channel's wz or out.
C6_ChannelIndependence ==
    /\ [](\A c \in Chans :
            SameChannel(mem, Replay(Fresh(Fresh(mem, 1), 2), c, chan[c].blocks, 1, 0), c))
    /\ [][ /\ \A t \in TableNames \cup {InBuf} : mem'[t] = mem[t]
           /\ \A c \in Chans : chan'[c] = chan[c] => SameChannel(mem', mem, c) ]_vars

\* both channels part-way through a signal that is not silence
C6_Witness ==
    /\ \A c \in Chans : chan[c].pos > 0 /\ chan[c].pos < SigLen
    /\ \A c \in Chans : IsFinite(mem[WzBuf(c)][1]) /\ mem[WzBuf(c)][1] # 0
    /\ mem[WzBuf(1)] # mem[WzBuf(2)]

Coeffs(c) ==
    LET s == interpHighShelfParams(mem, chan[c].theta, DVFRho)
    IN  calcIIRCoeffs(s.iG0, s.iGInf, s.iFc, DVFFs)
FiniteCoeffs(c) ==
    IsFinite(Coeffs(c).b0) /\ IsFinite(Coeffs(c).b1) /\ IsFinite(Coeffs(c).a1)
Silence == mem[InBuf] = Zeros(SigLen)

\* C7: with finite coefficients, zero samples in and wz zero at the start,
\* every output sample is zero and wz stays zero, for every block length and
\* after any number of consecutive calls.
C7_ZeroInZeroOut ==
    \A c \in Chans :
        (Silence /\ FiniteCoeffs(c))
            => /\ mem[OutBuf(c)] = Zeros(SigLen)
               /\ mem[WzBuf(c)] = Zeros(2)

\* silence through the filter at theta = 90, rho = 2, fs = 48000, in
\* several blocks
C7_Witness ==
    \E c \in Chans :
        /\ Silence /\ FiniteCoeffs(c) /\ Coeffs(c).b0 # 0
        /\ chan[c].theta = FloatOf(90)
        /\ chan[c].pos = SigLen /\ Len(chan[c].blocks) >= 2

=============================================================================
